---- MODULE Spec2Model ----
(***************************************************************************)
(* Targeting / inference engine of the battleship opponent (src/ai.py):    *)
(* BaseAI board bookkeeping and heat map, the hunt/target strategy, the    *)
(* adaptive strategy with its pattern learner, and the Monte-Carlo search. *)
(* Cells are <<x, y>> pairs, 0-indexed, as the tuples of the source.       *)
(***************************************************************************)
EXTENDS Integers, Sequences, FiniteSets, TLC

VARIABLES
    ai_class,              \* class of the engine object
    board_size,            \* BaseAI.board_size
    shots_fired,           \* BaseAI.shots_fired          (list of cells)
    hits,                  \* BaseAI.hits                 (list of cells)
    misses,                \* BaseAI.misses               (list of cells)
    ships_sunk,            \* BaseAI.ships_sunk           (list of ShipInfo)
    possible_targets,      \* BaseAI.possible_targets     (list of cells)
    remaining_ship_sizes,  \* BaseAI.remaining_ship_sizes (list of ints)
    heat_map,              \* BaseAI.heat_map             (cell -> score)
    last_shot_result,      \* BaseAI.last_shot_result
    hunt_pattern,          \* ImprovedHuntTargetAI.hunt_pattern
    priority_targets,      \* ImprovedHuntTargetAI.priority_targets
    pattern_weights,       \* AdaptiveAI.pattern_weights  (name -> float)
    games_played,          \* AdaptiveAI.games_played
    simulations,           \* MonteCarloTreeSearchAI.simulations
    player_ships,          \* the host's ships the engine fires at (SpecPlay)
    call,                  \* the last call made on the engine, with its arguments
    ret,                   \* the values that call can return ({None} for a procedure)
    raised                 \* the exception that call raised ("none" if it returned)

vars == <<ai_class, board_size, shots_fired, hits, misses, ships_sunk,
          possible_targets, remaining_ship_sizes, heat_map, last_shot_result,
          hunt_pattern, priority_targets, pattern_weights, games_played,
          simulations, player_ships, call, ret, raised>>

boardVars == <<shots_fired, hits, misses, ships_sunk, possible_targets,
               remaining_ship_sizes, heat_map, last_shot_result>>

configVars == <<ai_class, board_size, hunt_pattern, simulations, player_ships>>

learnerVars == <<pattern_weights, games_played>>

(***************************************************************************)
(* Bounds of the model.                                                    *)
(***************************************************************************)
\* shots recorded in one engagement of the specification Spec
MaxShots == 3

\* board size of the engines of Spec (BaseAI(board_size))
BoardSize == 3

\* ship lengths a HitAndSunk outcome is reported with
SunkSizes == {2, 3}

\* shots the host fires in one engagement of the specification SpecPlay
MaxTurns == 5

\* board size of the engines of SpecPlay and of SpecLearn
SimBoardSize == 4

\* games the learner is shown in the specification SpecLearn
MaxGames == 3

\* board size of the engines of SpecFleet: the smallest on which ships of
\* the lengths 5, 4, 3, 3 and 2 lie in rows without touching
FleetBoardSize == 7

\* ships the host of SpecFleet leaves hit but not sunk at one time
MaxOpenShips == 2

\* board size of the engines of SpecPlayout: the smallest whose playouts
\* have targets for more shots than the shot cap allows
PlayoutBoardSize == 8

\* self.simulations of the engine of SpecPlayout
SearchBudget == 3

BoardSizes == {BoardSize, SimBoardSize, FleetBoardSize, PlayoutBoardSize}

(***************************************************************************)
(* Python values.                                                          *)
(***************************************************************************)
\* None, where a cell or a list is expected
None == <<>>

\* sunk_ship_size = None (falsy, like 0, in "is_sunk and sunk_ship_size")
NoSize == 0

\* ShotPattern members and the str the configuration carries
ShotPattern_CHECKERBOARD == "ShotPattern.CHECKERBOARD"
ShotPattern_DIAGONAL == "ShotPattern.DIAGONAL"
ShotPattern_SPIRAL == "ShotPattern.SPIRAL"

\* AIConfig.hunt_pattern of the medium difficulty: a str, not a ShotPattern
config_hunt_pattern == "checkerboard"

\* BaseAI.ship_sizes
ship_sizes == <<5, 4, 3, 3, 2>>

(***************************************************************************)
(* List helpers.                                                           *)
(***************************************************************************)
\* e in s
Contains(s, e) == \E i \in 1..Len(s) : s[i] = e

\* a remove that leaves the list as it is (a fault to be detected)
RemoveNothing(s, e) == s

\* s.remove(e): the first occurrence goes
Remove(s, e) ==
    IF ~Contains(s, e) THEN s
    ELSE LET k == CHOOSE i \in 1..Len(s) : s[i] = e /\ \A j \in 1..(i-1) : s[j] # e
         IN  [i \in 1..(Len(s)-1) |-> IF i < k THEN s[i] ELSE s[i+1]]

\* the cells of a list, as a set
SetOf(s) == {s[i] : i \in 1..Len(s)}

Min(S) == CHOOSE m \in S : \A n \in S : m <= n
Max(S) == CHOOSE m \in S : \A n \in S : n <= m

Abs(n) == IF n < 0 THEN -n ELSE n

\* range(board_size) x range(board_size)
Cells(n) == {<<x, y>> : x \in 0..(n-1), y \in 0..(n-1)}

InBounds(c) == 0 <= c[1] /\ c[1] < board_size /\ 0 <= c[2] /\ c[2] < board_size

\* [(x, y) for x in range(board_size) for y in range(board_size)]
AllTargets(n) == [i \in 1..(n*n) |-> <<(i-1) \div n, (i-1) % n>>]

\* np.zeros((board_size, board_size))
Zeros(n) == [c \in Cells(n) |-> 0]

(***************************************************************************)
(* BaseAI._find_ship_from_last_hit: breadth-first search over the hits.    *)
(***************************************************************************)
Directions == <<<<0, 1>>, <<1, 0>>, <<0, -1>>, <<-1, 0>>>>

RECURSIVE BFS(_, _, _, _, _)
BFS(queue, visited, ship_hits, size, hs) ==
    IF queue = <<>> \/ Len(ship_hits) >= size THEN ship_hits
    ELSE LET c == Head(queue)
             rest == Tail(queue)
             seen == visited \cup {c}
             nbrs == [i \in 1..4 |-> <<c[1] + Directions[i][1], c[2] + Directions[i][2]>>]
             fresh == SelectSeq(nbrs, LAMBDA p : InBounds(p) /\ p \notin seen)
         IN  IF c \in visited THEN BFS(rest, visited, ship_hits, size, hs)
             ELSE IF Contains(hs, c)
                  THEN BFS(rest \o fresh, seen, Append(ship_hits, c), size, hs)
                  ELSE BFS(rest, seen, ship_hits, size, hs)

\* a reconstruction that takes the last hits recorded, adjacent or not (a
\* fault to be detected)
LastHits(x, y, size, hs) ==
    IF Len(hs) >= size THEN SubSeq(hs, Len(hs) - size + 1, Len(hs)) ELSE <<>>

FindShipFromLastHit(x, y, size, hs) ==
    LET ship_hits == BFS(<<<<x, y>>>>, {}, <<>>, size, hs)
    IN  IF Len(ship_hits) = size THEN ship_hits ELSE <<>>

(***************************************************************************)
(* BaseAI._clear_adjacent_targets                                          *)
(***************************************************************************)
ClearAdjacentTargets(targets, ship_positions) ==
    SelectSeq(targets, LAMBDA t :
        ~\E i \in 1..Len(ship_positions) :
            /\ Abs(t[1] - ship_positions[i][1]) <= 1
            /\ Abs(t[2] - ship_positions[i][2]) <= 1)

(***************************************************************************)
(* BaseAI._can_place_ship and BaseAI._update_heat_map                      *)
(***************************************************************************)
Positions(x, y, size, horizontal) ==
    IF horizontal THEN {<<x + i, y>> : i \in 0..(size-1)}
                  ELSE {<<x, y + i>> : i \in 0..(size-1)}

\* a window test that does not look at the misses (a fault to be detected)
NeverOnMiss(positions, ms) == FALSE

\* "if (px, py) in self.misses: return False", for some position of the window
OnMiss(positions, ms) == positions \cap ms # {}

\* a window test without the continuity check (a fault to be detected)
CanPlaceOverGaps(x, y, size, horizontal, hs, ms) ==
    LET positions == Positions(x, y, size, horizontal)
    IN  /\ \A p \in positions : p[1] < board_size /\ p[2] < board_size
        /\ ~OnMiss(positions, ms)

\* hs and ms are the sets of the cells in self.hits and in self.misses
CanPlaceShip(x, y, size, horizontal, hs, ms) ==
    LET positions == Positions(x, y, size, horizontal)
        line_hits == positions \cap hs
        axis == IF horizontal THEN {p[1] : p \in line_hits} ELSE {p[2] : p \in line_hits}
    IN  /\ \A p \in positions : p[1] < board_size /\ p[2] < board_size
        /\ ~OnMiss(positions, ms)
        /\ Cardinality(line_hits) > 1 => Max(axis) - Min(axis) = Cardinality(axis) - 1

\* the (x, y, horizontal) the loops of _update_heat_map visit for a ship of
\* the given size on a board of n x n:
\*   horizontal: y in range(n), x in range(n - size + 1)
\*   vertical:   y in range(n - size + 1), x in range(n)
LoopStarts(n, size) ==
    {<<x, y, TRUE>> : x \in 0..(n - size), y \in 0..(n - 1)}
        \cup {<<x, y, FALSE>> : x \in 0..(n - 1), y \in 0..(n - size)}

\* LoopStarts, tabulated for the board sizes and ship sizes of the model
StartsTable ==
    [n \in BoardSizes |-> [size \in SetOf(ship_sizes) |-> LoopStarts(n, size)]]

\* the placements _update_heat_map accepts: <<index of the ship size in
\* remaining_ship_sizes, <<x, y, horizontal>>>>
Placements(rs, hs, ms) ==
    UNION {{<<i, w>> : w \in {v \in StartsTable[board_size][rs[i]] :
                                 CanPlaceShip(v[1], v[2], rs[i], v[3], hs, ms)}} :
           i \in 1..Len(rs)}

\* no fill at all: the field is added onto (a fault to be detected)
KeepField(hm) == hm

\* heat_map.fill(0)
Fill0(hm) == [c \in DOMAIN hm |-> 0]

\* the "+= 1" of every accepted placement, on top of base
AddPlacements(placed, base, rs) ==
    [c \in DOMAIN base |->
        base[c] + Cardinality({p \in placed :
            IF p[2][3]
            THEN c[2] = p[2][2] /\ p[2][1] <= c[1] /\ c[1] < p[2][1] + rs[p[1]]
            ELSE c[1] = p[2][1] /\ p[2][2] <= c[2] /\ c[2] < p[2][2] + rs[p[1]]})]

\* BaseAI._update_heat_map
UpdateHeatMap(hm, rs, hs, ms) ==
    AddPlacements(Placements(rs, SetOf(hs), SetOf(ms)), Fill0(hm), rs)

(***************************************************************************)
(* BaseAI.update_after_guess, as a function of the board before the call.  *)
(***************************************************************************)
\* self.hits after "if is_hit: self.hits.append((x, y))"
HitsAfter(hs, x, y, is_hit) == IF is_hit THEN Append(hs, <<x, y>>) ELSE hs

\* a record that files every shot under the misses (a fault to be detected)
AlwaysMiss(ms, x, y, is_hit) == Append(ms, <<x, y>>)

\* self.misses after "else: self.misses.append((x, y))"
MissesAfter(ms, x, y, is_hit) == IF is_hit THEN ms ELSE Append(ms, <<x, y>>)

\* ship_hits of the call: the reconstructed ship, [] when none is recorded
ShipHits(x, y, is_hit, is_sunk, sunk_ship_size) ==
    IF is_hit /\ is_sunk /\ sunk_ship_size # NoSize
    THEN FindShipFromLastHit(x, y, sunk_ship_size, HitsAfter(hits, x, y, is_hit))
    ELSE <<>>

\* ShipInfo(size=..., hits=..., sunk=True)
ShipInfo(size, ship_hits) == [size |-> size, hits |-> ship_hits, sunk |-> TRUE]

\* update_after_guess clearing the targets around every hit, of a sunk ship or
\* not (a fault to be detected)
UpdateClearingEveryHit(x, y, is_hit, is_sunk, sunk_ship_size) ==
    LET ship_hits == ShipHits(x, y, is_hit, is_sunk, sunk_ship_size)
        hs == HitsAfter(hits, x, y, is_hit)
        ms == MissesAfter(misses, x, y, is_hit)
        rs == IF ship_hits # <<>> THEN Remove(remaining_ship_sizes, sunk_ship_size)
                                  ELSE remaining_ship_sizes
        cleared == IF ship_hits # <<>> THEN ClearAdjacentTargets(possible_targets, ship_hits)
                   ELSE IF is_hit THEN ClearAdjacentTargets(possible_targets, <<<<x, y>>>>)
                   ELSE possible_targets
    IN  /\ shots_fired' = Append(shots_fired, <<x, y>>)
        /\ hits' = hs
        /\ misses' = ms
        /\ last_shot_result' = IF is_hit THEN "hit" ELSE "miss"
        /\ ships_sunk' = IF ship_hits # <<>>
                         THEN Append(ships_sunk, ShipInfo(sunk_ship_size, ship_hits))
                         ELSE ships_sunk
        /\ remaining_ship_sizes' = rs
        /\ possible_targets' = Remove(cleared, <<x, y>>)
        /\ heat_map' = UpdateHeatMap(heat_map, rs, hs, ms)

\* BaseAI.update_after_guess
UpdateAfterGuess(x, y, is_hit, is_sunk, sunk_ship_size) ==
    LET ship_hits == ShipHits(x, y, is_hit, is_sunk, sunk_ship_size)
        hs == HitsAfter(hits, x, y, is_hit)
        ms == MissesAfter(misses, x, y, is_hit)
        rs == IF ship_hits # <<>> THEN Remove(remaining_ship_sizes, sunk_ship_size)
                                  ELSE remaining_ship_sizes
        cleared == IF ship_hits # <<>>
                   THEN ClearAdjacentTargets(possible_targets, ship_hits)
                   ELSE possible_targets
    IN  /\ shots_fired' = Append(shots_fired, <<x, y>>)
        /\ hits' = hs
        /\ misses' = ms
        /\ last_shot_result' = IF is_hit THEN "hit" ELSE "miss"
        /\ ships_sunk' = IF ship_hits # <<>>
                         THEN Append(ships_sunk, ShipInfo(sunk_ship_size, ship_hits))
                         ELSE ships_sunk
        /\ remaining_ship_sizes' = rs
        /\ possible_targets' = Remove(cleared, <<x, y>>)
        /\ heat_map' = UpdateHeatMap(heat_map, rs, hs, ms)

(***************************************************************************)
(* ImprovedHuntTargetAI                                                    *)
(***************************************************************************)
\* max(candidates, key=lambda p: self.heat_map[p[1]][p[0]]): the first maximum
MaxByHeat(candidates, hm) ==
    candidates[CHOOSE i \in 1..Len(candidates) :
                   /\ \A j \in 1..Len(candidates) : hm[candidates[j]] <= hm[candidates[i]]
                   /\ \A j \in 1..(i-1) : hm[candidates[j]] < hm[candidates[i]]]

\* BaseAI._get_adjacent_positions
GetAdjacentPositions(x, y, targets) ==
    SelectSeq([i \in 1..4 |-> <<x + Directions[i][1], y + Directions[i][2]>>],
              LAMBDA p : InBounds(p) /\ Contains(targets, p))

\* an engine that takes no hit for unsunk (a fault to be detected)
NoUnsunkHits(hs, sunk) == <<>>

\* unsunk_hits of make_guess
UnsunkHits(hs, sunk) ==
    SelectSeq(hs, LAMBDA h : ~\E i \in 1..Len(sunk) : Contains(sunk[i].hits, h))

\* the diagonal d of _hunt_mode: its cells still in possible_targets, by x
DiagonalCells(d, targets) ==
    SelectSeq([i \in 1..board_size |-> <<i - 1, d - (i - 1)>>],
              LAMBDA p : 0 <= p[2] /\ p[2] < board_size /\ Contains(targets, p))

\* sorted(possible_targets, key=distance to the centre): a stable sort
SpiralOrder(targets) ==
    LET center == board_size \div 2
        key(p) == Abs(p[1] - center) + Abs(p[2] - center)
        n == Len(targets)
        \* position of targets[i] in the sorted list
        rank(i) == Cardinality({j \in 1..n : \/ key(targets[j]) < key(targets[i])
                                             \/ /\ key(targets[j]) = key(targets[i])
                                                /\ j <= i})
    IN  [r \in 1..n |-> targets[CHOOSE i \in 1..n : rank(i) = r]]

\* the candidates of _hunt_mode
HuntCandidates(pattern, targets) ==
    IF pattern = ShotPattern_CHECKERBOARD
    THEN LET even == SelectSeq(targets, LAMBDA p : (p[1] + p[2]) % 2 = 0)
         IN  IF even = <<>> THEN targets ELSE even
    ELSE IF pattern = ShotPattern_DIAGONAL
    THEN LET ds == {d \in 0..(2 * board_size - 1) : DiagonalCells(d, targets) # <<>>}
         IN  IF ds = {} THEN <<>> ELSE DiagonalCells(Min(ds), targets)
    ELSE IF pattern = ShotPattern_SPIRAL
    THEN SpiralOrder(targets)
    ELSE targets

\* a hunt that picks any of the hottest candidates (a fault to be detected)
HuntAnyMaximum(pattern, targets, hm) ==
    LET candidates == SetOf(HuntCandidates(pattern, targets))
    IN  {c \in candidates : \A d \in candidates : hm[d] <= hm[c]}

\* a hunt that only answers with a cell of heat above 0 (a fault to be
\* detected)
HuntHotOnly(pattern, targets, hm) ==
    LET candidates == SelectSeq(HuntCandidates(pattern, targets), LAMBDA c : hm[c] > 0)
    IN  IF candidates # <<>> THEN {MaxByHeat(candidates, hm)} ELSE {None}

\* ImprovedHuntTargetAI._hunt_mode: the cells it can return
HuntMode(pattern, targets, hm) ==
    LET candidates == HuntCandidates(pattern, targets)
    IN  IF candidates # <<>> THEN {MaxByHeat(candidates, hm)}
        ELSE SetOf(targets)

\* one pass of the "for other in hits" loop of _group_hits over hs[k..]
RECURSIVE GroupPass(_, _, _, _)
GroupPass(group, used, hs, k) ==
    IF k > Len(hs) THEN group
    ELSE LET other == hs[k]
             joins == /\ other \notin used
                      /\ Contains(group, other) = FALSE
                      /\ \E m \in 1..Len(group) :
                            \/ Abs(other[1] - group[m][1]) = 1 /\ other[2] = group[m][2]
                            \/ Abs(other[2] - group[m][2]) = 1 /\ other[1] = group[m][1]
         IN  IF joins THEN GroupPass(Append(group, other), used, hs, k + 1)
                      ELSE GroupPass(group, used, hs, k + 1)

\* the "while changed" loop
RECURSIVE GroupGrow(_, _, _)
GroupGrow(group, used, hs) ==
    LET grown == GroupPass(group, used, hs, 1)
    IN  IF grown = group THEN group ELSE GroupGrow(grown, used, hs)

\* sorted(group): by x, then by y
SortCells(group) ==
    LET n == Len(group)
        less(a, b) == a[1] < b[1] \/ (a[1] = b[1] /\ a[2] < b[2])
        rank(i) == 1 + Cardinality({j \in 1..n : less(group[j], group[i])})
    IN  [r \in 1..n |-> group[CHOOSE i \in 1..n : rank(i) = r]]

\* ImprovedHuntTargetAI._group_hits
RECURSIVE GroupFrom(_, _, _, _)
GroupFrom(hs, k, used, groups) ==
    IF k > Len(hs) THEN groups
    ELSE IF hs[k] \in used THEN GroupFrom(hs, k + 1, used, groups)
    ELSE LET group == GroupGrow(<<hs[k]>>, used, hs)
         IN  GroupFrom(hs, k + 1, used \cup SetOf(group), Append(groups, SortCells(group)))

GroupHits(hs) == GroupFrom(hs, 1, {}, <<>>)

\* a target mode that never extends a group (a fault to be detected)
NoGroupEnd(group, targets) == None

\* the end of a group of two or more that _target_mode returns for it, None if
\* the group is not on a line or both of its ends are blocked
GroupEnd(group, targets) ==
    IF Len(group) < 2 THEN None
    ELSE IF \A i \in 1..Len(group) : group[i][2] = group[1][2]
    THEN LET xs == {group[i][1] : i \in 1..Len(group)}
             y == group[1][2]
         IN  IF Min(xs) > 0 /\ Contains(targets, <<Min(xs) - 1, y>>)
                 THEN <<Min(xs) - 1, y>>
             ELSE IF Max(xs) < board_size - 1 /\ Contains(targets, <<Max(xs) + 1, y>>)
                 THEN <<Max(xs) + 1, y>>
             ELSE None
    ELSE IF \A i \in 1..Len(group) : group[i][1] = group[1][1]
    THEN LET ys == {group[i][2] : i \in 1..Len(group)}
             x == group[1][1]
         IN  IF Min(ys) > 0 /\ Contains(targets, <<x, Min(ys) - 1>>)
                 THEN <<x, Min(ys) - 1>>
             ELSE IF Max(ys) < board_size - 1 /\ Contains(targets, <<x, Max(ys) + 1>>)
                 THEN <<x, Max(ys) + 1>>
             ELSE None
    ELSE None

\* ImprovedHuntTargetAI._target_mode: the cells it can return
TargetMode(unsunk_hits, pattern, targets, hm) ==
    LET ship_groups == GroupHits(unsunk_hits)
        ends == {g \in 1..Len(ship_groups) : GroupEnd(ship_groups[g], targets) # None}
        open == {h \in 1..Len(unsunk_hits) :
                    GetAdjacentPositions(unsunk_hits[h][1], unsunk_hits[h][2], targets) # <<>>}
    IN  IF ends # {} THEN {GroupEnd(ship_groups[Min(ends)], targets)}
        ELSE IF open # {}
        THEN {MaxByHeat(GetAdjacentPositions(unsunk_hits[Min(open)][1],
                                             unsunk_hits[Min(open)][2], targets), hm)}
        ELSE HuntMode(pattern, targets, hm)

\* priority_targets after the pops of make_guess: the list from its first
\* member that is still a possible target on
RECURSIVE SkipStale(_, _)
SkipStale(prio, targets) ==
    IF prio = <<>> THEN <<>>
    ELSE IF Contains(targets, Head(prio)) THEN prio
    ELSE SkipStale(Tail(prio), targets)

\* priority_targets as make_guess leaves it
PriorityAfterGuess(prio, targets) ==
    IF targets = <<>> THEN prio
    ELSE IF SkipStale(prio, targets) = <<>> THEN <<>>
    ELSE Tail(SkipStale(prio, targets))

\* ImprovedHuntTargetAI.make_guess: the cells it can return
HuntTargetGuess(prio, pattern, targets, hs, sunk, hm) ==
    IF targets = <<>> THEN {None}
    ELSE IF SkipStale(prio, targets) # <<>> THEN {Head(SkipStale(prio, targets))}
    ELSE IF UnsunkHits(hs, sunk) # <<>>
         THEN TargetMode(UnsunkHits(hs, sunk), pattern, targets, hm)
    ELSE HuntMode(pattern, targets, hm)

(***************************************************************************)
(* Python floats (IEEE 754 binary64), for the values >= 0 the engine       *)
(* computes.  A natural number is a little-endian list of limbs to the     *)
(* base 2^14 = 16384; a float is [m, e] of value m * 2^e with              *)
(* 2^52 <= m < 2^53, or FZero.  Every operation computes the exact result  *)
(* and rounds it to the nearest float, ties to even, as the hardware does. *)
(***************************************************************************)
RECURSIVE Pow2(_)
Pow2(k) == IF k = 0 THEN 1 ELSE 2 * Pow2(k - 1)

\* drop the leading zero limbs
RECURSIVE Trim(_)
Trim(a) == IF a # <<>> /\ a[Len(a)] = 0 THEN Trim(SubSeq(a, 1, Len(a) - 1)) ELSE a

BigOf(n) == Trim(<<n % 16384, (n \div 16384) % 16384, n \div (16384 * 16384)>>)

Limb(a, i) == IF i >= 1 /\ i <= Len(a) THEN a[i] ELSE 0

RECURSIVE AddFrom(_, _, _, _)
AddFrom(a, b, i, carry) ==
    IF i > Len(a) /\ i > Len(b)
    THEN IF carry = 0 THEN <<>> ELSE <<carry>>
    ELSE LET t == Limb(a, i) + Limb(b, i) + carry
         IN  <<t % 16384>> \o AddFrom(a, b, i + 1, t \div 16384)

BigAdd(a, b) == Trim(AddFrom(a, b, 1, 0))

\* a - b, for a >= b
RECURSIVE SubFrom(_, _, _, _)
SubFrom(a, b, i, borrow) ==
    IF i > Len(a) THEN <<>>
    ELSE LET t == Limb(a, i) - Limb(b, i) - borrow
         IN  <<(t + 16384) % 16384>> \o SubFrom(a, b, i + 1, IF t < 0 THEN 1 ELSE 0)

BigSub(a, b) == Trim(SubFrom(a, b, 1, 0))

\* a * d for one limb d
RECURSIVE MulLimbFrom(_, _, _, _)
MulLimbFrom(a, d, i, carry) ==
    IF i > Len(a) THEN IF carry = 0 THEN <<>> ELSE <<carry>>
    ELSE LET t == a[i] * d + carry
         IN  <<t % 16384>> \o MulLimbFrom(a, d, i + 1, t \div 16384)

RECURSIVE MulFrom(_, _, _)
MulFrom(a, b, j) ==
    IF j > Len(b) THEN <<>>
    ELSE BigAdd([i \in 1..(j-1) |-> 0] \o MulLimbFrom(a, b[j], 1, 0), MulFrom(a, b, j + 1))

BigMul(a, b) == Trim(MulFrom(a, b, 1))

\* -1, 0, 1 as a < b, a = b, a > b
RECURSIVE CmpFrom(_, _, _)
CmpFrom(a, b, i) ==
    IF i = 0 THEN 0
    ELSE IF a[i] < b[i] THEN -1
    ELSE IF a[i] > b[i] THEN 1
    ELSE CmpFrom(a, b, i - 1)

BigCmp(a, b) ==
    IF Len(a) < Len(b) THEN -1
    ELSE IF Len(a) > Len(b) THEN 1
    ELSE CmpFrom(a, b, Len(a))

RECURSIVE LimbLen(_)
LimbLen(d) == IF d = 0 THEN 0 ELSE 1 + LimbLen(d \div 2)

\* number of bits of a
BitLen(a) == IF a = <<>> THEN 0 ELSE (Len(a) - 1) * 14 + LimbLen(a[Len(a)])

\* a * 2^k
ShiftLeft(a, k) ==
    IF a = <<>> THEN <<>>
    ELSE [i \in 1..(k \div 14) |-> 0] \o MulLimbFrom(a, Pow2(k % 14), 1, 0)

\* floor(a / 2^k)
ShiftRight(a, k) ==
    LET limbs == k \div 14
        bits == k % 14
        top == IF limbs >= Len(a) THEN <<>> ELSE SubSeq(a, limbs + 1, Len(a))
    IN  Trim([i \in 1..Len(top) |->
                (top[i] \div Pow2(bits)) + (Limb(top, i + 1) % Pow2(bits)) * Pow2(14 - bits)])

Odd(a) == a # <<>> /\ a[1] % 2 = 1

\* 0.0
FZero == [m |-> <<>>, e |-> 0]

\* q * 2^e, q of 53 or 54 bits, as a float
Normal(q, e) ==
    IF BitLen(q) > 53 THEN [m |-> ShiftRight(q, 1), e |-> e + 1] ELSE [m |-> q, e |-> e]

\* q rounded up or not: c compares the part cut off with half a unit of q
RoundHalf(q, e, sticky, c) ==
    Normal(IF c > 0 \/ (c = 0 /\ (sticky \/ Odd(q))) THEN BigAdd(q, <<1>>) ELSE q, e)

\* m cut by s bits to q
RoundCut(m, e, sticky, s, q) ==
    RoundHalf(q, e + s, sticky, BigCmp(BigSub(m, ShiftLeft(q, s)), ShiftLeft(<<1>>, s - 1)))

\* m of len bits, len > 0
RoundBits(m, e, sticky, len) ==
    IF len <= 53
    THEN [m |-> ShiftLeft(m, 53 - len), e |-> e - (53 - len)]
    ELSE RoundCut(m, e, sticky, len - 53, ShiftRight(m, len - 53))

\* the float nearest to m * 2^e (plus, when sticky, a positive amount below
\* one unit of m), ties to even; 53 bits of mantissa
Round(m, e, sticky) ==
    IF m = <<>> THEN FZero ELSE RoundBits(m, e, sticky, BitLen(m))

\* float(n)
FloatOfInt(n) == Round(BigOf(n), 0, FALSE)

\* a * b
FMul(a, b) == Round(BigMul(a.m, b.m), a.e + b.e, FALSE)

\* a + b
FAdd(a, b) ==
    IF a.m = <<>> THEN b
    ELSE IF b.m = <<>> THEN a
    ELSE LET e == IF a.e < b.e THEN a.e ELSE b.e
         IN  Round(BigAdd(ShiftLeft(a.m, a.e - e), ShiftLeft(b.m, b.e - e)), e, FALSE)

\* a - b, for a >= b
FSub(a, b) ==
    IF b.m = <<>> THEN a
    ELSE LET e == IF a.e < b.e THEN a.e ELSE b.e
         IN  Round(BigSub(ShiftLeft(a.m, a.e - e), ShiftLeft(b.m, b.e - e)), e, FALSE)

\* a < b: mantissas have 53 bits, so the exponents decide first
FLess(a, b) ==
    IF b.m = <<>> THEN FALSE
    ELSE IF a.m = <<>> THEN TRUE
    ELSE a.e < b.e \/ (a.e = b.e /\ BigCmp(a.m, b.m) < 0)

\* floor(a / d) and a % d for a small d, limb by limb from the top
RECURSIVE DivSmallFrom(_, _, _, _, _)
DivSmallFrom(a, d, i, rem, quot) ==
    IF i = 0 THEN <<quot, rem>>
    ELSE DivSmallFrom(a, d, i - 1, (rem * 16384 + a[i]) % d,
                      <<(rem * 16384 + a[i]) \div d>> \o quot)

\* the float of the quotient and remainder given
RoundQuotient(qr, e) == Round(Trim(qr[1]), e, qr[2] # 0)

\* n / d of two ints n >= 0, d > 0: the correctly rounded quotient (computed
\* from 70 bits of it and the remainder); also the float a decimal literal
\* n/d denotes
FDivInt(n, d) ==
    IF n = 0 THEN FZero
    ELSE RoundQuotient(DivSmallFrom(ShiftLeft(BigOf(n), 70), d,
                                    Len(ShiftLeft(BigOf(n), 70)), 0, <<>>), -70)

(***************************************************************************)
(* AdaptiveAI                                                              *)
(***************************************************************************)
\* the float literals of the class
F_0_5 == FDivInt(1, 2)
F_1_0 == FloatOfInt(1)
F_0_7 == FDivInt(7, 10)
F_1_2 == FDivInt(6, 5)

\* a learning rate of 0.1 (a fault to be detected)
alpha_tenth == FDivInt(1, 10)

\* alpha = 0.2, the learning rate of learn_from_game
alpha == FDivInt(1, 5)

\* AdaptiveAI.pattern_weights as __init__ sets it
InitialWeights ==
    [edge_preference |-> F_0_5, center_preference |-> F_0_5,
     cluster_ships |-> F_0_5, spread_ships |-> F_0_5, diagonal_placement |-> F_0_5]

\* AdaptiveAI._is_edge
IsEdge(x, y) == x = 0 \/ x = board_size - 1 \/ y = 0 \/ y = board_size - 1

\* AdaptiveAI._is_corner
IsCorner(x, y) == (x = 0 \/ x = board_size - 1) /\ (y = 0 \/ y = board_size - 1)

\* _ships_are_close with "<= 1" for "<= 2" (a fault to be detected)
ShipsTouch(ship1, ship2) ==
    \E i \in 1..Len(ship1) : \E j \in 1..Len(ship2) :
        /\ Abs(ship1[i][1] - ship2[j][1]) <= 1
        /\ Abs(ship1[i][2] - ship2[j][2]) <= 1

\* AdaptiveAI._ships_are_close
ShipsAreClose(ship1, ship2) ==
    \E i \in 1..Len(ship1) : \E j \in 1..Len(ship2) :
        /\ Abs(ship1[i][1] - ship2[j][1]) <= 2
        /\ Abs(ship1[i][2] - ship2[j][2]) <= 2

\* probabilities[(x, y)] of AdaptiveAI.make_guess
Probability(c, hm, weights) ==
    LET prob == FMul(FloatOfInt(hm[c]),
                     IF IsEdge(c[1], c[2]) THEN weights.edge_preference
                                           ELSE weights.center_preference)
    IN  IF IsCorner(c[1], c[2]) /\ FLess(F_0_7, weights.edge_preference)
        THEN FMul(prob, F_1_2) ELSE prob

\* probabilities, in the order of possible_targets
RECURSIVE Probabilities(_, _, _)
Probabilities(targets, hm, weights) ==
    IF targets = <<>> THEN <<>>
    ELSE <<Probability(Head(targets), hm, weights)>> \o Probabilities(Tail(targets), hm, weights)

\* the place of targets[i] in sorted(probabilities.items(), key=..., reverse=True),
\* the sort being stable
Rank(prob, i) ==
    Cardinality({j \in 1..Len(prob) : \/ FLess(prob[i], prob[j])
                                      \/ prob[j] = prob[i] /\ j <= i})

\* the keys of best_targets[:top_count], for the probabilities given
TopOf(targets, prob) ==
    LET top_count == IF Len(targets) < 5 THEN Len(targets) ELSE 5
    IN  {targets[i] : i \in {j \in 1..Len(targets) : Rank(prob, j) <= top_count}}

\* the keys of best_targets[:top_count]: the top_count cells of highest
\* probability
TopTargets(targets, hm, weights) == TopOf(targets, Probabilities(targets, hm, weights))

\* AdaptiveAI.make_guess: the cells it can return, by the random shot (one
\* time in ten) or by the draw among the top candidates
AdaptiveGuess(targets, hm, weights) ==
    IF targets = <<>> THEN {None}
    ELSE SetOf(targets) \cup TopTargets(targets, hm, weights)

\* the exponential moving average of learn_from_game
Ema(ratio, old) == FAdd(FMul(alpha, ratio), FMul(FSub(F_1_0, alpha), old))

\* edge_ships of learn_from_game
EdgeShips(ships) ==
    Cardinality({i \in 1..Len(ships) :
                    \E k \in 1..Len(ships[i]) : IsEdge(ships[i][k][1], ships[i][k][2])})

\* clustered_ships of learn_from_game
ClusteredShips(ships) ==
    Cardinality({i \in 1..Len(ships) :
                    \E j \in 1..Len(ships) :
                        ships[i] # ships[j] /\ ShipsAreClose(ships[i], ships[j])})

\* learn_from_game without its two "1.0 - ..." assignments (a fault to be
\* detected)
StaleComplements(weights, ships) ==
    [weights EXCEPT
        !.edge_preference = Ema(FDivInt(EdgeShips(ships), Len(ships)), weights.edge_preference),
        !.cluster_ships = Ema(FDivInt(ClusteredShips(ships), Len(ships)), weights.cluster_ships)]

\* pattern_weights after learn_from_game(ships), for a non-empty list of ships
LearnedWeights(weights, ships) ==
    LET edge == Ema(FDivInt(EdgeShips(ships), Len(ships)), weights.edge_preference)
        cluster == Ema(FDivInt(ClusteredShips(ships), Len(ships)), weights.cluster_ships)
    IN  [edge_preference |-> edge,
         center_preference |-> FSub(F_1_0, edge),
         cluster_ships |-> cluster,
         spread_ships |-> FSub(F_1_0, cluster),
         diagonal_placement |-> weights.diagonal_placement]

(***************************************************************************)
(* MonteCarloTreeSearchAI                                                  *)
(***************************************************************************)
\* shots below which, and targets below which, make_guess plays _simple_guess
EarlyShots == 5
FewTargets == 10

\* MonteCarloTreeSearchAI._simple_guess: the cells it can return
SimpleGuess(targets, hs, sunk, hm) ==
    LET unsunk_hits == UnsunkHits(hs, sunk)
        open == {h \in 1..Len(unsunk_hits) :
                    GetAdjacentPositions(unsunk_hits[h][1], unsunk_hits[h][2], targets) # <<>>}
        best_heat == Max({hm[targets[i]] : i \in 1..Len(targets)})
    IN  IF open # {}
        THEN SetOf(GetAdjacentPositions(unsunk_hits[Min(open)][1],
                                        unsunk_hits[Min(open)][2], targets))
        ELSE {targets[i] : i \in {j \in 1..Len(targets) : hm[targets[j]] = best_heat}}

\* best_position after the simulation loop: a position that was simulated,
\* None when no simulation ran (simulations = 0, or the clock ended the loop
\* before the first one)
BestPosition(sims, targets) ==
    IF sims = 0 THEN {None} ELSE {None} \cup SetOf(targets)

\* "return best_position", with no fallback (a fault to be detected)
BestOnly(best_position, targets) == {best_position}

\* "best_position if best_position else random.choice(self.possible_targets)"
BestOrFallback(best_position, targets) ==
    IF best_position # None THEN {best_position} ELSE SetOf(targets)

\* MonteCarloTreeSearchAI.make_guess: the cells it can return
MCTSGuess(sims, shots, targets, hs, sunk, hm) ==
    IF targets = <<>> THEN {None}
    ELSE IF Len(shots) < EarlyShots \/ Len(targets) < FewTargets
    THEN SimpleGuess(targets, hs, sunk, hm)
    ELSE UNION {BestOrFallback(b, targets) : b \in BestPosition(sims, targets)}

\* the lists a playout works on
SimLists(hs, ms, rs, targets) ==
    [sim_hits |-> hs, sim_misses |-> ms, sim_remaining_ships |-> rs, sim_targets |-> targets]

\* _simulate_from_position(position), up to its first simulated shot: the
\* shot is a hit or a miss by random.random(), and the cell leaves sim_targets
SimulateShot(sim, position, is_hit) ==
    [sim EXCEPT !.sim_hits = IF is_hit THEN Append(@, position) ELSE @,
                !.sim_misses = IF is_hit THEN @ ELSE Append(@, position),
                !.sim_targets = Remove(@, position)]

\* the lists of the playouts make_guess can run: none in the early game, with
\* few targets or with no budget; else one from any position _select_position
\* can return
Playouts(sims, shots, live) ==
    IF \/ live.sim_targets = <<>>
       \/ Len(shots) < EarlyShots
       \/ Len(live.sim_targets) < FewTargets
       \/ sims = 0
    THEN {}
    ELSE {SimulateShot(live, position, is_hit) :
              position \in SetOf(live.sim_targets), is_hit \in BOOLEAN}

\* a playout that writes to the lists of the engine (a fault to be detected)
PlayoutOnLiveLists(live, sim) == sim

\* the lists of the engine after a playout: sim_hits, sim_misses,
\* sim_remaining_ships and sim_targets are made by .copy(), so what the
\* playout appends and removes does not reach self.hits, self.misses,
\* self.remaining_ship_sizes and self.possible_targets
AfterPlayout(live, sim) == live

\* visit_counts = defaultdict(int): every position counts 0 until visited
NoVisits(targets) == [p \in SetOf(targets) |-> 0]

\* sum(visit_counts.values())
RECURSIVE SumOver(_, _)
SumOver(f, S) ==
    IF S = {} THEN 0
    ELSE LET p == CHOOSE q \in S : TRUE IN f[p] + SumOver(f, S \ {p})

TotalVisits(visit_counts) == SumOver(visit_counts, DOMAIN visit_counts)

\* a selection that takes any possible target (a fault to be detected)
SelectAnyPosition(visit_counts, targets) == SetOf(targets)

\* MonteCarloTreeSearchAI._select_position: the positions it can return.
\* With no visit at all it is random.choice(possible_targets).  Else a
\* position not visited scores float('inf') and a visited one its UCB1 value,
\* which is finite: the best positions are the unvisited ones while there are
\* some.  When every position was visited the scores decide; they come from
\* win_scores, sums of the scores of random playouts, which are left out of
\* the model: any position can be the best.
SelectPosition(visit_counts, targets) ==
    LET unvisited == {p \in SetOf(targets) : visit_counts[p] = 0}
    IN  IF TotalVisits(visit_counts) = 0 THEN SetOf(targets)
        ELSE IF unvisited # {} THEN unvisited
        ELSE SetOf(targets)

\* "shots_taken < 50" of the playout loop
ShotCap == 50

\* the local variables of a playout after its first simulated shot: the
\* numbers of members of sim_targets and of sim_remaining_ships, which is all
\* the loop condition reads of them, shots_taken and ships_sunk
PlayoutLocals(targets, rs) ==
    [sim_targets |-> Len(targets) - 1,
     sim_remaining_ships |-> Len(rs),
     shots_taken |-> 1,
     ships_sunk |-> 0]

\* a playout loop without the shot cap (a fault to be detected)
ContinuesPastCap(locals) ==
    locals.sim_targets > 0 /\ locals.sim_remaining_ships > 0

\* "while sim_targets and sim_remaining_ships and shots_taken < 50"
PlayoutContinues(locals) ==
    /\ locals.sim_targets > 0
    /\ locals.sim_remaining_ships > 0
    /\ locals.shots_taken < ShotCap

\* one pass of the playout loop: a target leaves sim_targets, shots_taken
\* grows by one and, when random.random() makes the shot a hit that sinks, a
\* ship is popped from sim_remaining_ships
PlayoutShotLocals(locals, sinks) ==
    [sim_targets |-> locals.sim_targets - 1,
     sim_remaining_ships |-> locals.sim_remaining_ships - (IF sinks THEN 1 ELSE 0),
     shots_taken |-> locals.shots_taken + 1,
     ships_sunk |-> locals.ships_sunk + (IF sinks THEN 1 ELSE 0)]

(***************************************************************************)
(* Construction.                                                           *)
(***************************************************************************)
\* an attribute the class does not have
NoAttr == "no attribute"

\* BaseAI.__init__ on a board of n x n
BaseInit(n) ==
    /\ board_size = n
    /\ shots_fired = <<>>
    /\ hits = <<>>
    /\ misses = <<>>
    /\ ships_sunk = <<>>
    /\ possible_targets = AllTargets(n)
    /\ remaining_ship_sizes = ship_sizes
    /\ heat_map = Zeros(n)
    /\ last_shot_result = "None"

\* nothing was called on the engine yet
NoCall ==
    /\ call = [op |-> "__init__", args |-> <<>>]
    /\ ret = {None}
    /\ raised = "none"

\* ImprovedHuntTargetAI(n), as create_ai makes it (hunt_pattern is the
\* ShotPattern member __init__ sets) or as AIPlayer._create_ai_instance
\* configures it (hunt_pattern = AIConfig.hunt_pattern, a str)
InitHuntTarget(n) ==
    /\ ai_class = "ImprovedHuntTargetAI"
    /\ BaseInit(n)
    /\ hunt_pattern \in {ShotPattern_CHECKERBOARD, config_hunt_pattern}
    /\ priority_targets = <<>>
    /\ pattern_weights = NoAttr
    /\ games_played = NoAttr
    /\ simulations = NoAttr

\* AdaptiveAI(n)
InitAdaptive(n) ==
    /\ ai_class = "AdaptiveAI"
    /\ BaseInit(n)
    /\ hunt_pattern = NoAttr
    /\ priority_targets = NoAttr
    /\ pattern_weights = InitialWeights
    /\ games_played = 0
    /\ simulations = NoAttr

\* MonteCarloTreeSearchAI(n, simulations=sims)
InitMCTS(n, sims) ==
    /\ ai_class = "MonteCarloTreeSearchAI"
    /\ BaseInit(n)
    /\ hunt_pattern = NoAttr
    /\ priority_targets = NoAttr
    /\ pattern_weights = NoAttr
    /\ games_played = NoAttr
    /\ simulations = sims

\* BaseAI(n): create_ai("easy"), and the "RandomAI" of AIPlayer
InitBase(n) ==
    /\ ai_class = "BaseAI"
    /\ BaseInit(n)
    /\ hunt_pattern = NoAttr
    /\ priority_targets = NoAttr
    /\ pattern_weights = NoAttr
    /\ games_played = NoAttr
    /\ simulations = NoAttr

\* create_ai("expert"): MonteCarloTreeSearchAI(board_size, simulations=200)
ExpertSimulations == 200

\* AIConfig.mcts_simulations of the configurations AIPlayer is run with: the
\* "expert" budget, and a configuration with no budget at all
ConfiguredSimulations == {0, ExpertSimulations}

(***************************************************************************)
(* The calls a host makes on the engine.                                   *)
(***************************************************************************)
\* (is_hit, is_sunk, sunk_ship_size) of update_after_guess: Miss, Hit and
\* HitAndSunk(L)
Outcomes ==
    {<<FALSE, FALSE, NoSize>>, <<TRUE, FALSE, NoSize>>}
        \cup {<<TRUE, TRUE, L>> : L \in SunkSizes}

\* update_after_guess(x, y, is_hit, is_sunk, sunk_ship_size) on an in-bounds
\* cell that was not fired at before
RecordShot ==
    /\ Len(shots_fired) < MaxShots
    /\ \E c \in Cells(board_size) \ SetOf(shots_fired) : \E o \in Outcomes :
          /\ UpdateAfterGuess(c[1], c[2], o[1], o[2], o[3])
          /\ call' = [op |-> "update_after_guess", args |-> <<c[1], c[2], o[1], o[2], o[3]>>]
    /\ ret' = {None}
    /\ raised' = "none"
    /\ UNCHANGED <<configVars, learnerVars, priority_targets>>

\* ImprovedHuntTargetAI.make_guess()
MakeGuessHuntTarget ==
    /\ ai_class = "ImprovedHuntTargetAI"
    /\ ret' = HuntTargetGuess(priority_targets, hunt_pattern, possible_targets,
                              hits, ships_sunk, heat_map)
    /\ priority_targets' = PriorityAfterGuess(priority_targets, possible_targets)
    /\ call' = [op |-> "make_guess", args |-> <<>>]
    /\ raised' = "none"
    /\ UNCHANGED <<configVars, learnerVars, boardVars>>

\* AdaptiveAI.make_guess()
MakeGuessAdaptive ==
    /\ ai_class = "AdaptiveAI"
    /\ ret' = AdaptiveGuess(possible_targets, heat_map, pattern_weights)
    /\ call' = [op |-> "make_guess", args |-> <<>>]
    /\ raised' = "none"
    /\ UNCHANGED <<configVars, learnerVars, boardVars, priority_targets>>

\* MonteCarloTreeSearchAI.make_guess(): the answer, and the lists of the
\* engine after the playouts the call ran, if it ran any
MakeGuessMCTS ==
    /\ ai_class = "MonteCarloTreeSearchAI"
    /\ ret' = MCTSGuess(simulations, shots_fired, possible_targets, hits, ships_sunk, heat_map)
    /\ LET live == SimLists(hits, misses, remaining_ship_sizes, possible_targets)
       IN  \E sim \in {live} \cup Playouts(simulations, shots_fired, live) :
              LET after == AfterPlayout(live, sim)
              IN  /\ hits' = after.sim_hits
                  /\ misses' = after.sim_misses
                  /\ remaining_ship_sizes' = after.sim_remaining_ships
                  /\ possible_targets' = after.sim_targets
    /\ call' = [op |-> "make_guess", args |-> <<>>]
    /\ raised' = "none"
    /\ UNCHANGED <<configVars, learnerVars, priority_targets, shots_fired, ships_sunk,
                   heat_map, last_shot_result>>

\* BaseAI.make_guess(): raise NotImplementedError, nothing is returned
MakeGuessBase ==
    /\ ai_class = "BaseAI"
    /\ ret' = {}
    /\ call' = [op |-> "make_guess", args |-> <<>>]
    /\ raised' = "NotImplementedError"
    /\ UNCHANGED <<configVars, learnerVars, boardVars, priority_targets>>

\* _update_heat_map(), the recomputation of the field on its own
Recompute ==
    /\ heat_map' = UpdateHeatMap(heat_map, remaining_ship_sizes, hits, misses)
    /\ call' = [op |-> "_update_heat_map", args |-> <<>>]
    /\ ret' = {None}
    /\ raised' = "none"
    /\ UNCHANGED <<configVars, learnerVars, priority_targets, shots_fired, hits, misses,
                   ships_sunk, possible_targets, remaining_ship_sizes, last_shot_result>>

(***************************************************************************)
(* Spec: an engine of any of the three strategies, fed any sequence of     *)
(* shot results on cells in bounds that were not fired at before.          *)
(***************************************************************************)
Init ==
    /\ \/ InitHuntTarget(BoardSize)
       \/ InitAdaptive(BoardSize)
       \/ InitMCTS(BoardSize, ExpertSimulations)
    /\ player_ships = <<>>
    /\ NoCall

Next ==
    \/ RecordShot
    \/ MakeGuessHuntTarget
    \/ MakeGuessAdaptive
    \/ MakeGuessMCTS
    \/ Recompute

Spec == Init /\ [][Next]_vars

(***************************************************************************)
(* SpecHunt: the hunt/target engine alone.                                 *)
(***************************************************************************)
InitHunt ==
    /\ InitHuntTarget(BoardSize)
    /\ player_ships = <<>>
    /\ NoCall

NextHunt ==
    \/ RecordShot
    \/ MakeGuessHuntTarget
    \/ Recompute

SpecHunt == InitHunt /\ [][NextHunt]_vars

(***************************************************************************)
(* SpecLearn: the adaptive engine and its learner.                         *)
(***************************************************************************)
\* enemy_ship_positions of learn_from_game: revealed layouts, and the empty one
RevealedLayouts ==
    { <<>>,
      << <<<<1, 1>>, <<1, 2>>>> >>,
      << <<<<1, 1>>, <<2, 1>>>>, <<<<0, 3>>, <<1, 3>>>> >>,
      << <<<<0, 0>>, <<0, 1>>>>, <<<<3, 2>>, <<3, 3>>>> >>,
      << <<<<0, 0>>, <<1, 0>>>>, <<<<3, 0>>, <<3, 1>>>>, <<<<1, 2>>, <<1, 3>>>> >>,
      << <<<<1, 1>>, <<1, 2>>>>, <<<<3, 0>>, <<3, 1>>>>, <<<<2, 2>>, <<2, 1>>>> >>,
      << <<<<0, 0>>, <<0, 1>>>>, <<<<1, 3>>, <<2, 3>>>>, <<<<3, 0>>, <<3, 1>>>> >> }

\* AdaptiveAI.learn_from_game(enemy_ship_positions)
LearnFromGame ==
    /\ ai_class = "AdaptiveAI"
    /\ games_played < MaxGames
    /\ \E ships \in RevealedLayouts :
          /\ games_played' = games_played + 1
          /\ IF ships = <<>>
             THEN /\ raised' = "ZeroDivisionError"
                  /\ pattern_weights' = pattern_weights
             ELSE /\ raised' = "none"
                  /\ pattern_weights' = LearnedWeights(pattern_weights, ships)
          /\ call' = [op |-> "learn_from_game", args |-> <<ships>>]
    /\ ret' = {None}
    /\ UNCHANGED <<configVars, boardVars, priority_targets>>

InitLearn ==
    /\ InitAdaptive(SimBoardSize)
    /\ player_ships = <<>>
    /\ NoCall

NextLearn ==
    \/ LearnFromGame
    \/ MakeGuessAdaptive

SpecLearn == InitLearn /\ [][NextLearn]_vars

(***************************************************************************)
(* SpecPlay: single-player play.  BattleManager.handle_ai_turn asks the    *)
(* engine AIPlayer made for a cell, fires at it on the player's ships and  *)
(* feeds the result back.                                                  *)
(***************************************************************************)
\* ShipManager.player_ships: the positions of the player's ships
PlayerLayouts ==
    { << <<<<0, 0>>, <<0, 1>>, <<0, 2>>>>, <<<<2, 3>>, <<3, 3>>>> >>,
      << <<<<1, 1>>, <<2, 1>>>>, <<<<0, 3>>, <<1, 3>>, <<2, 3>>>> >>,
      << <<<<1, 1>>, <<1, 2>>, <<1, 3>>>>, <<<<3, 0>>, <<3, 1>>>> >> }

\* ShipManager.handle_shot(x, y, False): (hit, sunk, ship_size), the hits of
\* a ship being the cells of it fired at so far
HandleShot(ships, fired, x, y) ==
    LET struck == {i \in 1..Len(ships) : Contains(ships[i], <<x, y>>)}
    IN  IF struck = {} THEN <<FALSE, FALSE, NoSize>>
        ELSE LET ship == ships[Min(struck)]
             IN  IF SetOf(ship) \subseteq SetOf(fired) \cup {<<x, y>>}
                 THEN <<TRUE, TRUE, Len(ship)>>
                 ELSE <<TRUE, FALSE, NoSize>>

\* ShipManager.check_game_over() = "enemy": every ship of the player is sunk
PlayerSunk(ships, fired) ==
    ships # <<>> /\ \A i \in 1..Len(ships) : SetOf(ships[i]) \subseteq SetOf(fired)

\* valid_targets of handle_ai_turn: the cells not fired at, column by column
ValidTargets(n, fired) ==
    SelectSeq(AllTargets(n), LAMBDA c : ~Contains(fired, c))

\* make_guess() of the engine's class, on the targets given
EngineGuess(targets) ==
    CASE ai_class = "ImprovedHuntTargetAI" ->
            HuntTargetGuess(priority_targets, hunt_pattern, targets, hits, ships_sunk, heat_map)
      [] ai_class = "AdaptiveAI" ->
            AdaptiveGuess(targets, heat_map, pattern_weights)
      [] ai_class = "MonteCarloTreeSearchAI" ->
            MCTSGuess(simulations, shots_fired, targets, hits, ships_sunk, heat_map)

\* handle_ai_turn, up to the engine's answer: possible_targets is replaced
\* by valid_targets and make_guess is called
AiTurnGuess ==
    /\ call.op # "make_guess"
    /\ ~PlayerSunk(player_ships, shots_fired)
    /\ ValidTargets(board_size, shots_fired) # <<>>
    /\ possible_targets' = ValidTargets(board_size, shots_fired)
    /\ ret' = EngineGuess(possible_targets')
    /\ priority_targets' =
          IF ai_class = "ImprovedHuntTargetAI"
          THEN PriorityAfterGuess(priority_targets, possible_targets')
          ELSE priority_targets
    /\ call' = [op |-> "make_guess", args |-> <<>>]
    /\ raised' = "none"
    /\ UNCHANGED <<configVars, learnerVars, shots_fired, hits, misses,
                   ships_sunk, remaining_ship_sizes, heat_map, last_shot_result>>

\* handle_ai_turn, from the engine's answer on: process_enemy_shot and
\* update_after_guess with the verdict of the ship manager
AiTurnShot ==
    /\ call.op = "make_guess"
    /\ Len(shots_fired) < MaxTurns
    /\ \E g \in ret \ {None} :
          LET o == HandleShot(player_ships, shots_fired, g[1], g[2])
          IN  /\ UpdateAfterGuess(g[1], g[2], o[1], o[2], o[3])
              /\ call' = [op |-> "update_after_guess", args |-> <<g[1], g[2], o[1], o[2], o[3]>>]
    /\ ret' = {None}
    /\ raised' = "none"
    /\ UNCHANGED <<configVars, learnerVars, priority_targets>>

InitPlay ==
    /\ \/ \E sims \in ConfiguredSimulations : InitMCTS(SimBoardSize, sims)
       \/ InitHuntTarget(SimBoardSize) /\ hunt_pattern = config_hunt_pattern
    /\ player_ships \in PlayerLayouts
    /\ NoCall

NextPlay ==
    \/ AiTurnGuess
    \/ AiTurnShot

SpecPlay == InitPlay /\ [][NextPlay]_vars

(***************************************************************************)
(* SpecUnchecked: the hunt/target engine fed results on any cell, in       *)
(* bounds or not, fired at before or not.                                  *)
(***************************************************************************)
MaxUncheckedShots == 2

\* some cells off the board: left of it, below it, and past its last column
OutOfBounds(n) == {<<-1, 0>>, <<0, n>>, <<n, n - 1>>}

\* update_after_guess(x, y, is_hit, is_sunk, sunk_ship_size) on any cell: the
\* method tests neither the bounds nor self.shots_fired
RecordAnyShot ==
    /\ Len(shots_fired) < MaxUncheckedShots
    /\ \E c \in Cells(board_size) \cup OutOfBounds(board_size) : \E o \in Outcomes :
          /\ UpdateAfterGuess(c[1], c[2], o[1], o[2], o[3])
          /\ call' = [op |-> "update_after_guess", args |-> <<c[1], c[2], o[1], o[2], o[3]>>]
    /\ ret' = {None}
    /\ raised' = "none"
    /\ UNCHANGED <<configVars, learnerVars, priority_targets>>

NextUnchecked ==
    \/ RecordAnyShot
    \/ MakeGuessHuntTarget

SpecUnchecked == InitHunt /\ [][NextUnchecked]_vars

(***************************************************************************)
(* SpecEasy: the engine of the "easy" difficulty, a plain BaseAI.          *)
(***************************************************************************)
InitEasy ==
    /\ InitBase(BoardSize)
    /\ player_ships = <<>>
    /\ NoCall

NextEasy ==
    \/ RecordShot
    \/ MakeGuessBase

SpecEasy == InitEasy /\ [][NextEasy]_vars

(***************************************************************************)
(* SpecDirect: an engine asked and fed directly, the way AIPlayer does:    *)
(* make_guess, then update_after_guess with the verdict of the ship        *)
(* manager on the cell.  possible_targets is the engine's own throughout.  *)
(***************************************************************************)
InitDirect ==
    /\ \/ InitHuntTarget(SimBoardSize) /\ hunt_pattern = config_hunt_pattern
       \/ InitAdaptive(SimBoardSize)
       \/ \E sims \in ConfiguredSimulations : InitMCTS(SimBoardSize, sims)
    /\ player_ships \in PlayerLayouts
    /\ NoCall

\* the adaptive engine answers with any cell one time in ten, so its games
\* are followed for fewer turns
MaxAdaptiveTurns == 2

MakeGuessAdaptiveEarly ==
    /\ Len(shots_fired) < MaxAdaptiveTurns
    /\ MakeGuessAdaptive

NextDirect ==
    \/ MakeGuessHuntTarget
    \/ MakeGuessAdaptiveEarly
    \/ MakeGuessMCTS
    \/ AiTurnShot

SpecDirect == InitDirect /\ [][NextDirect]_vars

(***************************************************************************)
(* SpecFleet: an engine fed the verdicts of the ship manager on a whole    *)
(* fleet, of the lengths of BaseAI.ship_sizes, until every ship is sunk.   *)
(* The cells are chosen by the caller of update_after_guess: the cells of  *)
(* the ships, each ship from its first cell to its last, the ships begun   *)
(* in the order of the layout.                                             *)
(***************************************************************************)
\* ShipManager.player_ships: ships of the lengths 5, 4, 2, 3 and 3, placed
\* as is_valid_placement allows, no two of them touching
FleetLayout ==
    << <<<<0, 0>>, <<1, 0>>, <<2, 0>>, <<3, 0>>, <<4, 0>>>>,
       <<<<0, 2>>, <<1, 2>>, <<2, 2>>, <<3, 2>>>>,
       <<<<5, 2>>, <<6, 2>>>>,
       <<<<0, 4>>, <<1, 4>>, <<2, 4>>>>,
       <<<<4, 4>>, <<5, 4>>, <<6, 4>>>> >>

\* the cells of the ship that were fired at
FiredOf(ship, fired) == SelectSeq(ship, LAMBDA c : Contains(fired, c))

\* the ships hit but not sunk
OpenShips(ships, fired) ==
    {i \in 1..Len(ships) : FiredOf(ships[i], fired) # <<>> /\ FiredOf(ships[i], fired) # ships[i]}

\* the cells the caller fires at next: with MaxOpenShips ships hit but not
\* sunk, the next cell of the first of them; with fewer, the next cell of any
\* of them or the first cell of the first ship not hit
FleetTargets(ships, fired) ==
    LET open == OpenShips(ships, fired)
        untouched == {i \in 1..Len(ships) : FiredOf(ships[i], fired) = <<>>}
        next == IF Cardinality(open) >= MaxOpenShips THEN {Min(open)}
                ELSE open \cup (IF untouched # {} THEN {Min(untouched)} ELSE {})
    IN  {ships[i][Len(FiredOf(ships[i], fired)) + 1] : i \in next}

\* update_after_guess(x, y, *handle_shot(x, y, False)) on a cell of the fleet
RecordFleetShot ==
    /\ \E c \in FleetTargets(player_ships, shots_fired) :
          LET o == HandleShot(player_ships, shots_fired, c[1], c[2])
          IN  /\ UpdateAfterGuess(c[1], c[2], o[1], o[2], o[3])
              /\ call' = [op |-> "update_after_guess", args |-> <<c[1], c[2], o[1], o[2], o[3]>>]
    /\ ret' = {None}
    /\ raised' = "none"
    /\ UNCHANGED <<configVars, learnerVars, priority_targets>>

InitFleet ==
    /\ \/ InitHuntTarget(FleetBoardSize) /\ hunt_pattern = config_hunt_pattern
       \/ InitMCTS(FleetBoardSize, ExpertSimulations)
    /\ player_ships = FleetLayout
    /\ NoCall

NextFleet ==
    \/ RecordFleetShot
    \/ MakeGuessHuntTarget
    \/ MakeGuessMCTS

SpecFleet == InitFleet /\ [][NextFleet]_vars

(***************************************************************************)
(* SpecSearch: the simulation loop of MonteCarloTreeSearchAI.make_guess,   *)
(* pass by pass, on a board that five or six misses were recorded on.      *)
(***************************************************************************)
\* misses recorded before the search
MaxOpeningShots == 6

\* passes of the simulation loop that are followed, of the self.simulations
\* the engine has
MaxPlayouts == 12

\* update_after_guess(x, y, False) on the first cell of possible_targets
RecordOpeningMiss ==
    /\ Len(shots_fired) < MaxOpeningShots
    /\ possible_targets # <<>>
    /\ LET c == Head(possible_targets)
       IN  /\ UpdateAfterGuess(c[1], c[2], FALSE, FALSE, NoSize)
           /\ call' = [op |-> "update_after_guess", args |-> <<c[1], c[2], FALSE, FALSE, NoSize>>]
    /\ ret' = {None}
    /\ raised' = "none"
    /\ UNCHANGED <<configVars, learnerVars, priority_targets>>

\* visit_counts at the head of the next pass of the loop: empty when
\* make_guess begins, else the counts of the pass before with the position
\* it simulated counted once more
NextVisitCounts ==
    IF call.op = "_select_position"
    THEN {[call.args[1] EXCEPT ![p] = @ + 1] : p \in ret}
    ELSE {NoVisits(possible_targets)}

\* one pass of "while simulations_run < self.simulations and ...": the call
\* of _select_position(visit_counts, win_scores); the playout of the position
\* it returns and the update of the counts are seen at the next pass
SearchPass ==
    /\ ai_class = "MonteCarloTreeSearchAI"
    /\ possible_targets # <<>>
    /\ ~(Len(shots_fired) < EarlyShots \/ Len(possible_targets) < FewTargets)
    /\ \E visit_counts \in NextVisitCounts :
          /\ TotalVisits(visit_counts) < simulations
          /\ TotalVisits(visit_counts) < MaxPlayouts
          /\ call' = [op |-> "_select_position", args |-> <<visit_counts>>]
          /\ ret' = SelectPosition(visit_counts, possible_targets)
    /\ raised' = "none"
    /\ UNCHANGED <<configVars, learnerVars, boardVars, priority_targets>>

InitSearch ==
    /\ InitMCTS(SimBoardSize, ExpertSimulations)
    /\ player_ships = <<>>
    /\ NoCall

NextSearch ==
    \/ RecordOpeningMiss
    \/ SearchPass

SpecSearch == InitSearch /\ [][NextSearch]_vars

(***************************************************************************)
(* SpecPlayout: the simulation loop of MonteCarloTreeSearchAI.make_guess   *)
(* with its playouts shot by shot.  While the loop runs, call is the frame *)
(* of _simulate_from_position: simulations_run of make_guess, the locals   *)
(* of the playout, and whether the playout has returned.                   *)
(***************************************************************************)
InPlayout == call.op = "_simulate_from_position" /\ ~call.returned

PlayoutReturned == call.op = "_simulate_from_position" /\ call.returned

\* the misses before the search: the engine runs one call at a time
RecordBeforeSearch ==
    /\ call.op # "_simulate_from_position"
    /\ RecordOpeningMiss

\* the loop of make_guess enters a pass: _simulate_from_position is called,
\* copies the lists and simulates its first shot
PlayoutStart ==
    /\ ai_class = "MonteCarloTreeSearchAI"
    /\ possible_targets # <<>>
    /\ ~(Len(shots_fired) < EarlyShots \/ Len(possible_targets) < FewTargets)
    /\ ~InPlayout
    /\ LET simulations_run == IF PlayoutReturned THEN call.simulations_run ELSE 0
       IN  /\ simulations_run < simulations
           /\ call' = [op |-> "_simulate_from_position", args |-> <<>>,
                       simulations_run |-> simulations_run,
                       locals |-> PlayoutLocals(possible_targets, remaining_ship_sizes),
                       returned |-> FALSE]
    /\ ret' = {}
    /\ raised' = "none"
    /\ UNCHANGED <<configVars, learnerVars, boardVars, priority_targets>>

\* one pass of the loop of the playout
PlayoutShot ==
    /\ InPlayout
    /\ PlayoutContinues(call.locals)
    /\ \E sinks \in BOOLEAN :
          call' = [call EXCEPT !.locals = PlayoutShotLocals(@, sinks)]
    /\ UNCHANGED <<ret, raised, configVars, learnerVars, boardVars, priority_targets>>

\* the loop of the playout is left, the score is returned and make_guess
\* counts the simulation
PlayoutEnd ==
    /\ InPlayout
    /\ ~PlayoutContinues(call.locals)
    /\ call' = [call EXCEPT !.returned = TRUE, !.simulations_run = @ + 1]
    /\ ret' = {None}
    /\ UNCHANGED <<raised, configVars, learnerVars, boardVars, priority_targets>>

\* the loop of make_guess is left, by the count or by the clock, and
\* make_guess returns
SearchReturn ==
    /\ PlayoutReturned
    /\ ret' = SetOf(possible_targets)
    /\ call' = [op |-> "make_guess", args |-> <<>>]
    /\ raised' = "none"
    /\ UNCHANGED <<configVars, learnerVars, boardVars, priority_targets>>

InitPlayout ==
    /\ InitMCTS(PlayoutBoardSize, SearchBudget)
    /\ player_ships = <<>>
    /\ NoCall

NextPlayout ==
    \/ RecordBeforeSearch
    \/ PlayoutStart
    \/ PlayoutShot
    \/ PlayoutEnd
    \/ SearchReturn

SpecPlayout == InitPlayout /\ [][NextPlayout]_vars

\* the engine keeps running: a loop that can make a pass makes it, and a
\* call that can return returns
SpecPlayoutLive ==
    /\ SpecPlayout
    /\ WF_vars(PlayoutShot)
    /\ WF_vars(PlayoutEnd)
    /\ WF_vars(SearchReturn)

(***************************************************************************)
(* Properties.                                                             *)
(***************************************************************************)
IsGuess == call.op = "make_guess"

IsRecord == call.op = "update_after_guess"

\* the call recorded HitAndSunk(L), L being args[5]
IsHitAndSunk == IsRecord /\ call.args[3] /\ call.args[4] /\ call.args[5] # NoSize

Parity(c) == (c[1] + c[2]) % 2

\* C1: after any sequence of recorded shot results on in-bounds cells not
\* fired at before, make_guess of the hunt/target, adaptive and Monte-Carlo
\* engines never returns a cell that is in shots_fired.
C1_GuessNotInShots ==
    IsGuess => \A g \in ret \ {None} : ~Contains(shots_fired, g)

C1_Witness ==
    /\ IsGuess
    /\ ai_class = "AdaptiveAI"
    /\ Len(shots_fired) = MaxShots
    /\ hits # <<>>
    /\ misses # <<>>
    /\ Cardinality(ret) > 1

\* C2: no cell is ever both in hits and in misses.
C2_HitsMissesDisjoint == SetOf(hits) \cap SetOf(misses) = {}

C2_Witness ==
    /\ IsRecord
    /\ Len(hits) >= 2
    /\ misses # <<>>

\* C3: every recorded HitAndSunk(L) adds exactly one ship of exactly L cells
\* to ships_sunk and takes exactly one L out of remaining_ship_sizes, the other
\* sizes staying as they were.
C3_SinkingStep ==
    IsHitAndSunk'
        => /\ Len(ships_sunk') = Len(ships_sunk) + 1
           /\ SubSeq(ships_sunk', 1, Len(ships_sunk)) = ships_sunk
           /\ Len(ships_sunk'[Len(ships_sunk')].hits) = call'.args[5]
           /\ Contains(remaining_ship_sizes, call'.args[5])
           /\ remaining_ship_sizes' = Remove(remaining_ship_sizes, call'.args[5])

C3_SinkingUpdatesInventory == [][C3_SinkingStep]_vars


C5_CheckerboardParity ==
    (/\ IsGuess
     /\ ai_class = "ImprovedHuntTargetAI"
     /\ hits = <<>>
     /\ \E c \in SetOf(possible_targets) : Parity(c) = 0)
        => \A g \in ret : g # None /\ Parity(g) = 0

\* the unsunk hits, when they all lie on one line without a gap and are two
\* or more: the cells just beyond their two ends ({} otherwise)
EndExtensions ==
    LET U == SetOf(UnsunkHits(hits, ships_sunk))
        xs == {c[1] : c \in U}
        ys == {c[2] : c \in U}
    IN  IF Cardinality(U) < 2 THEN {}
        ELSE IF Cardinality(ys) = 1 /\ Max(xs) - Min(xs) = Cardinality(U) - 1
        THEN {<<Min(xs) - 1, Min(ys)>>, <<Max(xs) + 1, Min(ys)>>}
        ELSE IF Cardinality(xs) = 1 /\ Max(ys) - Min(ys) = Cardinality(U) - 1
        THEN {<<Min(xs), Min(ys) - 1>>, <<Min(xs), Max(ys) + 1>>}
        ELSE {}

\* those of them that are on the board and still possible targets
OpenEnds == {c \in EndExtensions : InBounds(c) /\ Contains(possible_targets, c)}

\* C6: when the unsunk hits are a group of two or more on one line without a
\* gap, and a cell just beyond one of its ends is on the board and still a
\* possible target, the hunt/target engine's make_guess returns such a cell.
C6_TargetExtendsGroup ==
    (IsGuess /\ ai_class = "ImprovedHuntTargetAI" /\ OpenEnds # {})
        => ret \subseteq OpenEnds

C6_Witness ==
    /\ IsGuess
    /\ ai_class = "ImprovedHuntTargetAI"
    /\ Cardinality(OpenEnds) = 2
    /\ misses # <<>>
    /\ ret \subseteq OpenEnds

\* C7: with simulations = 0 and possible targets left, the Monte-Carlo
\* engine's make_guess raises nothing and returns a possible target, also
\* past the early game (5 shots or more, 10 targets or more).
C7_FallbackReturnsTarget ==
    (/\ IsGuess
     /\ ai_class = "MonteCarloTreeSearchAI"
     /\ simulations = 0
     /\ possible_targets # <<>>)
        => raised = "none" /\ ret # {} /\ ret \subseteq SetOf(possible_targets)

C7_Witness ==
    /\ IsGuess
    /\ ai_class = "MonteCarloTreeSearchAI"
    /\ simulations = 0
    /\ Len(shots_fired) >= EarlyShots
    /\ Len(possible_targets) >= FewTargets
    /\ ret = SetOf(possible_targets)

\* C8: recomputing the heat map twice in a row, with no shot recorded in
\* between, gives the heat map of recomputing it once.
C8_RecomputeIdempotent ==
    LET once == UpdateHeatMap(heat_map, remaining_ship_sizes, hits, misses)
    IN  UpdateHeatMap(once, remaining_ship_sizes, hits, misses) = once

C8_Witness ==
    /\ call.op = "_update_heat_map"
    /\ hits # <<>>
    /\ misses # <<>>
    /\ \E c \in DOMAIN heat_map : heat_map[c] > 0
    /\ UpdateHeatMap(heat_map, remaining_ship_sizes, hits, misses) = heat_map


IsLearn == call.op = "learn_from_game"

\* the float literals 0.2, 1.0, 0.5 and 0.6 of the claim
F_0_2 == FDivInt(2, 10)
F_0_6 == FDivInt(6, 10)

\* the float next above f
NextUp(f) == [m |-> BigAdd(f.m, <<1>>), e |-> f.e]

\* edge_ratio of a revealed layout: the fraction of its ships with a cell on
\* the edge of the board
ObservedEdgeRatio(ships) ==
    FDivInt(Cardinality({i \in 1..Len(ships) :
                            \E c \in SetOf(ships[i]) :
                                c[1] \in {0, board_size - 1} \/ c[2] \in {0, board_size - 1}}),
            Len(ships))

\* the first game learnt from showed every ship on the edge
FirstGameAllEdge ==
    /\ IsLearn
    /\ raised = "none"
    /\ games_played = 1
    /\ ObservedEdgeRatio(call.args[1]) = FloatOfInt(1)

\* learn_from_game of a layout with ships sets edge_preference to
\* 0.2 * edge_ratio + (1 - 0.2) * edge_preference
C9_EmaStep ==
    (IsLearn /\ raised = "none")'
        => pattern_weights'.edge_preference =
              FAdd(FMul(F_0_2, ObservedEdgeRatio(call'.args[1])),
                   FMul(FSub(FloatOfInt(1), F_0_2), pattern_weights.edge_preference))

\* C9: learn_from_game sets edge_preference to alpha * edge_ratio +
\* (1 - alpha) * edge_preference with alpha = 0.2; from 0.5 and an edge ratio
\* of 1.0 the new weight is exactly 0.6.
C9_ExactlySixTenths ==
    FirstGameAllEdge => pattern_weights.edge_preference = F_0_6

\* C9, as it holds: the same moving average, in floats; from 0.5 and an edge
\* ratio of 1.0 the new weight is 0.6000000000000001, the float next above 0.6.
C9_EdgePreferenceEma ==
    /\ [][C9_EmaStep]_vars
    /\ [](FirstGameAllEdge => pattern_weights.edge_preference = NextUp(F_0_6))

C9_Witness ==
    /\ FirstGameAllEdge
    /\ Len(call.args[1]) = 2
    /\ pattern_weights.edge_preference # F_0_6

\* the hits joined to cell c through neighbours in the four directions
RECURSIVE Connected(_, _)
Connected(group, hs) ==
    LET more == {h \in hs \ group :
                    \E g \in group : Abs(h[1] - g[1]) + Abs(h[2] - g[2]) = 1}
    IN  IF more = {} THEN group ELSE Connected(group \cup more, hs)

\* C10: recording HitAndSunk(L) at a cell that fewer than L hits are joined
\* to, the cell itself counted, raises ReconstructionAmbiguous to the caller.
C10_AmbiguousSinkingRaises ==
    (/\ IsHitAndSunk
     /\ Cardinality(Connected({<<call.args[1], call.args[2]>>}, SetOf(hits))) < call.args[5])
        => raised = "ReconstructionAmbiguous"

(***************************************************************************)
(* C11                                                                     *)
(***************************************************************************)
\* the cell of the call is off the board or was fired at before the call
InvalidShotStep ==
    LET c == <<call'.args[1], call'.args[2]>>
    IN  IsRecord' /\ (~InBounds(c) \/ Contains(shots_fired, c))

\* C11: update_after_guess on a cell that is out of bounds or already in
\* shots_fired fails with InvalidShot and leaves the board as it was, so that
\* no cell is ever twice in shots_fired.
C11_InvalidShotStep ==
    /\ InvalidShotStep => raised' = "InvalidShot" /\ UNCHANGED boardVars
    /\ \A i, j \in 1..Len(shots_fired') : shots_fired'[i] = shots_fired'[j] => i = j

C11_InvalidShotRejected == [][C11_InvalidShotStep]_vars

(***************************************************************************)
(* C12                                                                     *)
(***************************************************************************)
\* C12: update_after_guess with HitAndSunk(L) when no ship of length L is left
\* in remaining_ship_sizes fails with UnknownShipLength instead of recording
\* a sunk ship.
C12_UnknownLengthStep ==
    (IsHitAndSunk' /\ ~Contains(remaining_ship_sizes, call'.args[5]))
        => raised' = "UnknownShipLength" /\ ships_sunk' = ships_sunk

C12_UnknownShipLengthRaised == [][C12_UnknownLengthStep]_vars

(***************************************************************************)
(* C13                                                                     *)
(***************************************************************************)
\* C13: for every strategy that a configuration can select, make_guess
\* returns a cell of possible_targets whenever possible_targets is not empty,
\* and signals NoTargetsRemaining only when it is empty.
C13_GuessWhenTargetsRemain ==
    IsGuess =>
        /\ possible_targets # <<>> =>
              /\ raised = "none"
              /\ ret # {}
              /\ ret \subseteq SetOf(possible_targets)
        /\ raised = "NoTargetsRemaining" => possible_targets = <<>>

(***************************************************************************)
(* C14                                                                     *)
(***************************************************************************)
\* the cells within Chebyshev distance 1 of the cell c
Near(c) == {t \in Cells(board_size) : Abs(t[1] - c[1]) <= 1 /\ Abs(t[2] - c[2]) <= 1}

\* the cells known of the ship the call sank: the cell of the call, and the
\* hits of the ship the call appended to ships_sunk, if it appended one
SunkShipCells ==
    LET c == <<call.args[1], call.args[2]>>
        last == ships_sunk[Len(ships_sunk)]
    IN  {c} \cup (IF ships_sunk # <<>> /\ Contains(last.hits, c) THEN SetOf(last.hits) ELSE {})

\* C14: after a HitAndSunk outcome is recorded, no cell within Chebyshev
\* distance 1 of a cell of the sunk ship is left in possible_targets.
C14_SunkShipPurged ==
    IsHitAndSunk => \A c \in SunkShipCells : Near(c) \cap SetOf(possible_targets) = {}

(***************************************************************************)
(* C15                                                                     *)
(***************************************************************************)
\* C15: make_guess of the hunt/target engine is a function of the state of
\* the engine: it has one possible answer, whatever the random source does,
\* so two engines fed the same results answer alike; cells of equal heat are
\* told apart by their order in the list, not by chance.
C15_HuntTargetDeterministic ==
    (IsGuess /\ ai_class = "ImprovedHuntTargetAI") => Cardinality(ret) = 1

\* a hunting guess that had to choose between candidates of equal heat
C15_Witness ==
    /\ IsGuess
    /\ ai_class = "ImprovedHuntTargetAI"
    /\ shots_fired # <<>>
    /\ UnsunkHits(hits, ships_sunk) = <<>>
    /\ \E g \in ret \ {None} :
          \E t \in SetOf(HuntCandidates(hunt_pattern, possible_targets)) \ {g} :
              heat_map[t] = heat_map[g]

(***************************************************************************)
(* C16                                                                     *)
(***************************************************************************)
\* C16: make_guess, of every strategy and with every playout of the
\* Monte-Carlo search, leaves the board as it was: shots_fired, hits, misses,
\* remaining_ship_sizes, ships_sunk, possible_targets and heat_map.
C16_GuessStep == IsGuess' => UNCHANGED boardVars

C16_GuessLeavesBoard == [][C16_GuessStep]_vars

\* the Monte-Carlo engine answered after running playouts
C16_Witness ==
    /\ IsGuess
    /\ ai_class = "MonteCarloTreeSearchAI"
    /\ Playouts(simulations, shots_fired,
                SimLists(hits, misses, remaining_ship_sizes, possible_targets)) # {}

(***************************************************************************)
(* C17                                                                     *)
(***************************************************************************)
\* the cells of the window of the given length that starts at <<x, y>>
Window(x, y, length, horizontal) ==
    {c \in (-1..board_size) \X (-1..board_size) :
        IF horizontal THEN c[2] = y /\ x <= c[1] /\ c[1] < x + length
                      ELSE c[1] = x /\ y <= c[2] /\ c[2] < y + length}

\* the window is on the board, holds no miss, and its hits are next to one
\* another: no cell between two hits of the window is not a hit
Accepted(w) ==
    /\ w \subseteq Cells(board_size)
    /\ w \cap SetOf(misses) = {}
    /\ \A a, b \in w \cap SetOf(hits) : \A c \in w :
          (a[1] <= c[1] /\ c[1] <= b[1] /\ a[2] <= c[2] /\ c[2] <= b[2])
              => c \in SetOf(hits)

\* the windows, of every ship left and of both orientations, that cover c
WindowsOver(c) ==
    {v \in (1..Len(remaining_ship_sizes)) \X (-1..board_size) \X (-1..board_size) \X BOOLEAN :
        LET w == Window(v[2], v[3], remaining_ship_sizes[v[1]], v[4])
        IN  c \in w /\ Accepted(w)}

\* the field was recomputed by the call
IsRecomputed == IsRecord \/ call.op = "_update_heat_map"

\* C17: after every recomputation the heat of a cell is the number of
\* accepted windows that cover it, over every ship in remaining_ship_sizes
\* (a length once for each ship that has it) and both orientations; a window
\* is accepted when it is on the board, holds no miss, and its hits are
\* contiguous.
C17_HeatCountsWindows ==
    IsRecomputed => \A c \in Cells(board_size) : heat_map[c] = Cardinality(WindowsOver(c))

\* a recomputation that rejected a window for a gap between its hits alone,
\* and accepted others
C17_Witness ==
    /\ IsRecomputed
    /\ \E c \in Cells(board_size) : heat_map[c] > 0
    /\ \E i \in 1..Len(remaining_ship_sizes) : \E x, y \in 0..(board_size - 1) : \E h \in BOOLEAN :
          LET w == Window(x, y, remaining_ship_sizes[i], h)
          IN  /\ w \subseteq Cells(board_size)
              /\ w \cap SetOf(misses) = {}
              /\ ~Accepted(w)

(***************************************************************************)
(* C18                                                                     *)
(***************************************************************************)
\* C18: in every reachable state, the state after construction included,
\* heat_map is the field _update_heat_map computes from the hits, the misses
\* and remaining_ship_sizes of the state, so that make_guess never reads a
\* field that is stale or was never computed.
C18_StoredFieldCurrent ==
    heat_map = UpdateHeatMap(heat_map, remaining_ship_sizes, hits, misses)

(***************************************************************************)
(* C19                                                                     *)
(***************************************************************************)
\* C19: with remaining_ship_sizes empty the recomputed field is 0 on every
\* cell, and make_guess on a board that still has possible_targets returns
\* one of them.
C19_EmptyInventory ==
    remaining_ship_sizes = <<>> =>
        /\ UpdateHeatMap(heat_map, remaining_ship_sizes, hits, misses) = Zeros(board_size)
        /\ heat_map = Zeros(board_size)
        /\ (IsGuess /\ possible_targets # <<>>) =>
              ret # {} /\ ret \subseteq SetOf(possible_targets)

\* a guess asked for when every ship is sunk and targets are left
C19_Witness ==
    /\ IsGuess
    /\ remaining_ship_sizes = <<>>
    /\ possible_targets # <<>>
    /\ ret \subseteq SetOf(possible_targets)

(***************************************************************************)
(* C20                                                                     *)
(***************************************************************************)
\* the ship of the layout that lies on the cell of the call
ShipStruck ==
    player_ships[CHOOSE i \in 1..Len(player_ships) :
                     Contains(player_ships[i], <<call.args[1], call.args[2]>>)]

\* C20: when a layout produced the outcomes, the hits stored for a
\* HitAndSunk(L) at a cell are exactly the L cells of the ship just sunk: they
\* include the cell, are all hits that were unresolved before the call or the
\* hit of the call, and hold no cell of another ship, sunk before or not.
C20_StoredShipStep ==
    IsHitAndSunk' =>
        LET c == <<call'.args[1], call'.args[2]>>
            L == call'.args[5]
            stored == ships_sunk'[Len(ships_sunk')]
        IN  /\ Len(ships_sunk') = Len(ships_sunk) + 1
            /\ stored.size = L
            /\ Len(stored.hits) = L
            /\ SetOf(stored.hits) = SetOf(ShipStruck')
            /\ c \in SetOf(stored.hits)
            /\ SetOf(stored.hits) \subseteq SetOf(UnsunkHits(hits, ships_sunk)) \cup {c}
            /\ \A j \in 1..Len(ships_sunk) :
                  SetOf(ships_sunk[j].hits) \cap SetOf(stored.hits) = {}

C20_StoredShipIsSunkShip == [][C20_StoredShipStep]_vars

\* a sinking recorded with ships sunk before it and with a hit on a ship
\* that is still afloat
C20_Witness ==
    /\ IsHitAndSunk
    /\ Len(ships_sunk) >= 2
    /\ UnsunkHits(hits, ships_sunk) # <<>>

(***************************************************************************)
(* C21                                                                     *)
(***************************************************************************)
\* the groups of the unsunk hits: the sets of hits joined to one another
UnsunkGroups ==
    LET U == SetOf(UnsunkHits(hits, ships_sunk))
    IN  {Connected({h}, U) : h \in U}

\* the cells a group proposes: the four neighbours of a single hit, the two
\* cells beyond the ends of a group of two or more that lies on one line
Proposed(G) ==
    LET xs == {c[1] : c \in G}
        ys == {c[2] : c \in G}
        x == Min(xs)
        y == Min(ys)
    IN  IF Cardinality(G) = 1
        THEN {<<x + 1, y>>, <<x - 1, y>>, <<x, y + 1>>, <<x, y - 1>>}
        ELSE IF Cardinality(ys) = 1 THEN {<<Min(xs) - 1, y>>, <<Max(xs) + 1, y>>}
        ELSE IF Cardinality(xs) = 1 THEN {<<x, Min(ys) - 1>>, <<x, Max(ys) + 1>>}
        ELSE {}

\* the candidates of the targeting rule: the cells proposed by some group
\* that are on the board and still possible targets
TargetCandidates ==
    {c \in UNION {Proposed(G) : G \in UnsunkGroups} :
        InBounds(c) /\ Contains(possible_targets, c)}

\* C21: in target mode the cell returned has the highest heat of all the
\* candidates proposed by all the groups of unsunk hits, not just the first
\* candidate found for the first group.
C21_TargetIsHottestCandidate ==
    (IsGuess /\ ai_class = "ImprovedHuntTargetAI" /\ TargetCandidates # {})
        => \A g \in ret :
              /\ g \in TargetCandidates
              /\ \A c \in TargetCandidates : heat_map[c] <= heat_map[g]

(***************************************************************************)
(* C22                                                                     *)
(***************************************************************************)
\* the hits that are not among the hits of a sunk ship
LiveHits ==
    {h \in SetOf(hits) : \A i \in 1..Len(ships_sunk) : ~Contains(ships_sunk[i].hits, h)}

\* the possible targets next to a live hit, in one of the four directions
LiveNeighbours ==
    {t \in SetOf(possible_targets) :
        \E h \in LiveHits : Abs(t[1] - h[1]) + Abs(t[2] - h[2]) = 1}

\* C22: after any sequence of recorded results the hunt/target engine
\* chooses by the targeting rule exactly when some hit is not part of a sunk
\* ship: from the recording of a hit without a sinking on it answers with a
\* cell next to a live hit (while one is a possible target), and once the
\* sinkings have absorbed every live hit it answers as the hunt does.
C22_ModeFollowsLiveHits ==
    (IsGuess /\ ai_class = "ImprovedHuntTargetAI" /\ possible_targets # <<>>) =>
        /\ (LiveHits # {} /\ LiveNeighbours # {}) => ret \subseteq LiveNeighbours
        /\ LiveHits = {} => ret = HuntMode(hunt_pattern, possible_targets, heat_map)

\* a guess made by the hunt after a sinking absorbed the live hits, there
\* being targets next to no hit
C22_Witness ==
    /\ IsGuess
    /\ ai_class = "ImprovedHuntTargetAI"
    /\ ships_sunk # <<>>
    /\ LiveHits = {}
    /\ possible_targets # <<>>
    /\ ret = HuntMode(hunt_pattern, possible_targets, heat_map)

(***************************************************************************)
(* C23                                                                     *)
(***************************************************************************)
\* C23: in target mode, when every candidate proposed by every group of
\* unsunk hits is blocked (fired at, purged or off the board) and there are
\* possible targets, make_guess returns the cell the hunt would choose.
C23_BlockedTargetingHunts ==
    (/\ IsGuess
     /\ ai_class = "ImprovedHuntTargetAI"
     /\ LiveHits # {}
     /\ TargetCandidates = {}
     /\ possible_targets # <<>>)
        => ret = HuntMode(hunt_pattern, possible_targets, heat_map)

(***************************************************************************)
(* C24                                                                     *)
(***************************************************************************)
\* the checkerboard is on: hunt_pattern is the member __init__ sets or the
\* name the configuration gives
CheckerboardOn == hunt_pattern \in {ShotPattern_CHECKERBOARD, config_hunt_pattern}

\* the candidates of the hunt: the possible targets of parity 0 when the
\* checkerboard is on and there are some, else all possible targets
HuntingCandidates ==
    LET even == {c \in SetOf(possible_targets) : Parity(c) = 0}
    IN  IF CheckerboardOn /\ even # {} THEN even ELSE SetOf(possible_targets)

\* C24: when hunting, the cell returned is a candidate of the hunt of the
\* highest heat among the candidates.
C24_HuntIsHottestCandidate ==
    (/\ IsGuess
     /\ ai_class = "ImprovedHuntTargetAI"
     /\ LiveHits = {}
     /\ possible_targets # <<>>)
        => \A g \in ret :
              /\ g \in HuntingCandidates
              /\ \A c \in HuntingCandidates : heat_map[c] <= heat_map[g]

(***************************************************************************)
(* C25                                                                     *)
(***************************************************************************)
IsSelect == call.op = "_select_position"

\* C25: within one make_guess of the Monte-Carlo engine, _select_position
\* never returns a position already visited while a possible target is not
\* visited yet, so no position has 2 visits while another has none.
C25_UnvisitedFirst ==
    IsSelect =>
        LET visit_counts == call.args[1]
            unvisited == {p \in DOMAIN visit_counts : visit_counts[p] = 0}
        IN  /\ unvisited # {} => ret \subseteq unvisited
            /\ unvisited # {} => \A p \in DOMAIN visit_counts : visit_counts[p] < 2

\* a selection with positions visited and positions not visited
C25_Witness ==
    /\ IsSelect
    /\ \E p, q \in DOMAIN call.args[1] : call.args[1][p] = 1 /\ call.args[1][q] = 0
    /\ \A p \in ret : call.args[1][p] = 0

(***************************************************************************)
(* C26                                                                     *)
(***************************************************************************)
\* the counts of the running search are within their limits, and a playout
\* that returned took ShotCap shots or ran out of targets or of ships
PlayoutWithinLimits ==
    call.op = "_simulate_from_position" =>
        /\ call.simulations_run <= simulations
        /\ call.locals.shots_taken <= ShotCap
        /\ call.returned =>
              \/ call.locals.shots_taken = ShotCap
              \/ call.locals.sim_targets = 0
              \/ call.locals.sim_remaining_ships = 0

\* C26: a make_guess of the Monte-Carlo engine ends after at most
\* self.simulations playouts, and every playout ends, with at most 50
\* simulated shots taken, or earlier when its ships or its targets run out.
C26_SearchTerminates ==
    /\ []PlayoutWithinLimits
    /\ InPlayout ~> PlayoutReturned
    /\ (call.op = "_simulate_from_position") ~> IsGuess

\* a playout that the shot cap ended, with targets and ships left
C26_Witness ==
    /\ PlayoutReturned
    /\ call.locals.shots_taken = ShotCap
    /\ call.locals.sim_targets > 0
    /\ call.locals.sim_remaining_ships > 0

(***************************************************************************)
(* C27                                                                     *)
(***************************************************************************)
\* 0.0 <= f <= 1.0
InUnitInterval(f) == ~FLess(f, FZero) /\ ~FLess(F_1_0, f)

\* C27: when the adaptive engine is made, and after every learn_from_game of
\* a layout with ships, every pattern weight lies in [0, 1],
\* center_preference is 1.0 - edge_preference and spread_ships is
\* 1.0 - cluster_ships.
C27_WeightsComplementary ==
    ai_class = "AdaptiveAI" =>
        /\ \A k \in DOMAIN pattern_weights : InUnitInterval(pattern_weights[k])
        /\ pattern_weights.center_preference = FSub(F_1_0, pattern_weights.edge_preference)
        /\ pattern_weights.spread_ships = FSub(F_1_0, pattern_weights.cluster_ships)

\* a second game learnt from, with both weights moved from 0.5 and apart
C27_Witness ==
    /\ IsLearn
    /\ raised = "none"
    /\ games_played >= 2
    /\ FLess(F_0_5, pattern_weights.edge_preference)
    /\ FLess(pattern_weights.cluster_ships, F_0_5)
    /\ pattern_weights.center_preference = FSub(F_1_0, pattern_weights.edge_preference)
    /\ pattern_weights.spread_ships = FSub(F_1_0, pattern_weights.cluster_ships)

(***************************************************************************)
(* C28                                                                     *)
(***************************************************************************)
\* the Chebyshev distance of two cells
Chebyshev(c, d) ==
    IF Abs(c[1] - d[1]) >= Abs(c[2] - d[2]) THEN Abs(c[1] - d[1]) ELSE Abs(c[2] - d[2])

\* some cell of ship s is within Chebyshev distance 2 of some cell of ship t
WithinTwo(s, t) == \E c \in SetOf(s) : \E d \in SetOf(t) : Chebyshev(c, d) <= 2

\* the pairs of distinct ships of a layout, and those of them within distance 2
ShipPairs(ships) == {p \in (1..Len(ships)) \X (1..Len(ships)) : p[1] < p[2]}
ClosePairs(ships) == {p \in ShipPairs(ships) : WithinTwo(ships[p[1]], ships[p[2]])}

\* the ships of a layout within distance 2 of another ship of it
ShipsWithNeighbour(ships) ==
    {i \in 1..Len(ships) :
        \E j \in 1..Len(ships) : ships[j] # ships[i] /\ WithinTwo(ships[i], ships[j])}

\* the step of the moving average of cluster_ships from the ratio n / d
ClusterStep(n, d) ==
    pattern_weights'.cluster_ships =
        FAdd(FMul(F_0_2, FDivInt(n, d)),
             FMul(FSub(FloatOfInt(1), F_0_2), pattern_weights.cluster_ships))

\* C28: the cluster ratio that learn_from_game feeds into the moving average
\* of cluster_ships is the fraction of the pairs of distinct ships of the
\* revealed layout that have two cells within Chebyshev distance 2.
C28_RatioOfPairs ==
    [][(IsLearn /\ raised = "none" /\ Len(call.args[1]) >= 2)'
          => ClusterStep(Cardinality(ClosePairs(call'.args[1])),
                         Cardinality(ShipPairs(call'.args[1])))]_vars

\* C28, as it holds: the cluster ratio is the fraction of the ships of the
\* revealed layout that have a cell within Chebyshev distance 2 of a cell of
\* another ship of the layout.
C28_RatioOfShips ==
    [][(IsLearn /\ raised = "none")'
          => ClusterStep(Cardinality(ShipsWithNeighbour(call'.args[1])),
                         Len(call'.args[1]))]_vars

\* a first game of three ships, two of them apart and each near the third:
\* two pairs of three are close, and the ratio learnt from is 1.0
C28_Witness ==
    /\ IsLearn
    /\ raised = "none"
    /\ games_played = 1
    /\ Len(call.args[1]) = 3
    /\ Cardinality(ClosePairs(call.args[1])) = 2
    /\ pattern_weights.cluster_ships = NextUp(F_0_6)

(***************************************************************************)
(* C29                                                                     *)
(***************************************************************************)
\* the call recorded a Miss, or a Hit that sank nothing
IsMissOrPlainHit == IsRecord /\ ~(call.args[3] /\ call.args[4])

\* the ships still to sink and the ships sunk are as before the step
InventoryKept ==
    /\ remaining_ship_sizes' = remaining_ship_sizes
    /\ ships_sunk' = ships_sunk

C29_Step ==
    /\ IsMissOrPlainHit' =>
          /\ InventoryKept
          /\ possible_targets' =
                SelectSeq(possible_targets,
                          LAMBDA c : c # <<call'.args[1], call'.args[2]>>)
    /\ ~InventoryKept => IsHitAndSunk'

\* C29: update_after_guess of a Miss, or of a Hit without sinking, leaves
\* remaining_ship_sizes and ships_sunk as they were and takes the fired cell,
\* and no other, out of possible_targets; remaining_ship_sizes and ships_sunk
\* change only when a HitAndSunk is recorded.
C29_PlainShotKeepsInventory == [][C29_Step]_vars

\* a Hit that sank nothing, recorded after a ship was sunk, next to targets
\* that stay
C29_Witness ==
    /\ IsMissOrPlainHit
    /\ call.args[3]
    /\ ships_sunk # <<>>
    /\ Len(remaining_ship_sizes) = 4
    /\ ~Contains(possible_targets, <<call.args[1], call.args[2]>>)
    /\ \E c \in SetOf(possible_targets) :
          Abs(c[1] - call.args[1]) + Abs(c[2] - call.args[2]) = 1

(***************************************************************************)
(* C30                                                                     *)
(***************************************************************************)
\* the cells _clear_adjacent_targets took out of possible_targets: the cells
\* not fired at within Chebyshev distance 1 of a hit of a ship in ships_sunk
PurgedCells ==
    {t \in Cells(board_size) \ SetOf(shots_fired) :
        \E i \in 1..Len(ships_sunk) : \E h \in SetOf(ships_sunk[i].hits) : t \in Near(h)}

\* C30: in single-player play through handle_ai_turn, a cell taken out of
\* possible_targets for being next to a sunk ship (diagonals included) is in
\* possible_targets on no later turn, and no later make_guess returns it.
C30_PurgedStaysOut ==
    /\ PurgedCells \cap SetOf(possible_targets) = {}
    /\ IsGuess => ret \cap PurgedCells = {}

====
